---- MODULE Spec2Model ----
(***************************************************************************)
(* Model of client/src/components/student-goals.tsx: the StudentGoals      *)
(* component (three cached reads, goal selection, the progress classifier  *)
(* computed in IEEE-754 double arithmetic as JavaScript does, the delete   *)
(* confirmation dialog and the delete mutation with its callbacks).        *)
(***************************************************************************)
EXTENDS Integers, Sequences, FiniteSets, TLC

(***************************************************************************)
(* JavaScript numbers.  A number is a double: 53 significant bits, results *)
(* of / and * rounded to nearest, ties to even.  A finite non-zero double  *)
(* is [kind |-> "fin", m |-> 53 bits (most significant first, m[1] = 1),   *)
(* e |-> exponent of m[1]], i.e. the value 1.m[2]m[3]... * 2^e.            *)
(***************************************************************************)
MantBits == 53

Zero == [kind |-> "zero"]
NaN == [kind |-> "NaN"]
Infinity == [kind |-> "Infinity"]

RECURSIVE BitsNat(_)
BitsNat(bits) ==
  IF bits = <<>> THEN 0
  ELSE 2 * BitsNat(SubSeq(bits, 1, Len(bits) - 1)) + bits[Len(bits)]

\* Least k with n * 2^k >= d, as <<n * 2^k, k>>  (n < d on entry).
RECURSIVE NormUp(_, _, _)
NormUp(n, d, k) == IF n >= d THEN <<n, k>> ELSE NormUp(2 * n, d, k + 1)

\* Greatest k with d * 2^k <= n, as <<d * 2^k, k>>  (n >= d on entry).
RECURSIVE NormDown(_, _, _)
NormDown(n, d, k) == IF 2 * d <= n THEN NormDown(n, 2 * d, k + 1) ELSE <<d, k>>

\* 2^i mod d, by repeated squaring.
RECURSIVE Pow2Mod(_, _)
Pow2Mod(i, d) ==
  IF i = 0 THEN 1 % d
  ELSE LET h == Pow2Mod(i \div 2, d)
       IN  (h * h * (IF i % 2 = 1 THEN 2 ELSE 1)) % d

\* The remainder left after i bits of the binary expansion of r / d (r < d).
DivRem(r, d, i) == (r * Pow2Mod(i, d)) % d

\* The first n bits of the binary expansion of r / d (r < d): bit i is set
\* when twice the remainder left after i - 1 bits reaches d.
DivBits(r, d, n) == [i \in 1..n |-> IF 2 * DivRem(r, d, i - 1) >= d THEN 1 ELSE 0]

\* bits + 1, as a sequence of the same length (all ones wrap to all zeros).
IncBits(bits) ==
  LET n == Len(bits)
      zeros == {i \in 1..n : bits[i] = 0}
  IN  IF zeros = {} THEN [i \in 1..n |-> 0]
      ELSE LET j == CHOOSE i \in zeros : \A k \in zeros : k <= i
           IN  [i \in 1..n |-> IF i < j THEN bits[i] ELSE IF i = j THEN 1 ELSE 0]

\* Round to nearest, ties to even: top holds the MantBits kept bits, guard
\* the first dropped bit, sticky whether any later dropped bit is set.
RoundNearestEven(top, e, guard, sticky) ==
  LET up == guard = 1 /\ (sticky \/ top[MantBits] = 1)
      inc == IncBits(top)
  IN  IF ~up THEN [kind |-> "fin", m |-> top, e |-> e]
      ELSE IF inc[1] = 1 THEN [kind |-> "fin", m |-> inc, e |-> e]
      ELSE [kind |-> "fin", m |-> [inc EXCEPT ![1] = 1], e |-> e + 1]

\* current / target  on doubles holding the non-negative integers.
FDiv(current, target) ==
  IF target = 0 THEN (IF current = 0 THEN NaN ELSE Infinity)
  ELSE IF current = 0 THEN Zero
  ELSE LET nd == IF current >= target
                 THEN LET dk == NormDown(current, target, 0)
                      IN  <<current, dk[1], dk[2]>>
                 ELSE LET nk == NormUp(current, target, 0)
                      IN  <<nk[1], target, 0 - nk[2]>>
           n == nd[1]
           d == nd[2]
           e == nd[3]
           r == n - d
           frac == DivBits(r, d, MantBits)
           rest == DivRem(r, d, MantBits)
       IN  RoundNearestEven(<<1>> \o SubSeq(frac, 1, MantBits - 1), e,
                            frac[MantBits], rest # 0)

\* The 16-bit limbs of a bit sequence, least significant limb first.
Limbs(bits) ==
  LET n == Len(bits)
      cnt == (n + 15) \div 16
  IN  [c \in 1..cnt |->
         BitsNat(SubSeq(bits, IF n - 16 * c + 1 < 1 THEN 1 ELSE n - 16 * c + 1,
                        n - 16 * (c - 1)))]

\* limbs * k, limb by limb with carry (k < 2^15); the last carry is the
\* top limb of the result.
RECURSIVE MulLimbs(_, _, _, _)
MulLimbs(limbs, k, i, carry) ==
  IF i > Len(limbs) THEN <<carry>>
  ELSE LET acc == limbs[i] * k + carry
       IN  <<acc % 65536>> \o MulLimbs(limbs, k, i + 1, acc \div 65536)

\* The bit sequence of limbs, most significant bit first, no leading zero.
LimbBits(limbs) ==
  LET cnt == Len(limbs)
      all == [i \in 1..(16 * cnt) |->
                (limbs[cnt - ((i - 1) \div 16)] \div (2 ^ (15 - ((i - 1) % 16)))) % 2]
      ones == {i \in 1..(16 * cnt) : all[i] = 1}
  IN  IF ones = {} THEN <<>>
      ELSE SubSeq(all, CHOOSE i \in ones : \A k \in ones : i <= k, 16 * cnt)

\* bits * k as a bit sequence.
MulBits(bits, k) == LimbBits(MulLimbs(Limbs(bits), k, 1, 0))

\* x * k  on doubles, k a positive integer.
FMul(x, k) ==
  IF x.kind # "fin" THEN x
  ELSE LET p == MulBits(x.m, k)
           L == Len(p)
       IN  IF L = MantBits THEN [kind |-> "fin", m |-> p, e |-> x.e]
           ELSE RoundNearestEven(SubSeq(p, 1, MantBits), x.e + (L - MantBits),
                                 p[MantBits + 1],
                                 \E i \in (MantBits + 2)..L : p[i] = 1)

\* A displayed number: an integer, NaN or Infinity.
Num(v) == [kind |-> "num", v |-> v]

\* Math.round: the nearest integer, a tie going up (towards +Infinity).
MathRound(x) ==
  IF x.kind = "NaN" THEN NaN
  ELSE IF x.kind = "Infinity" THEN Infinity
  ELSE IF x.kind = "zero" THEN Num(0)
  ELSE IF x.e < -1 THEN Num(0)
  ELSE IF x.e >= MantBits - 1 THEN Num(BitsNat(x.m \o [i \in 1..(x.e - (MantBits - 1)) |-> 0]))
  ELSE Num(BitsNat(SubSeq(x.m, 1, x.e + 1)) + x.m[x.e + 2])

\* Math.min(a, b) for b an integer: NaN if a is NaN.
MathMin(a, b) ==
  IF a.kind = "NaN" THEN NaN
  ELSE IF a.kind = "Infinity" THEN Num(b)
  ELSE IF a.v < b THEN a ELSE Num(b)

(***************************************************************************)
(* The progress classifier (lines 75-91).                                  *)
(***************************************************************************)
PercentCap == 100
CompletedAt == 100
AlmostThereAt == 75
InProgressAt == 50

\* Math.min(Math.round((current / target) * 100), 100)
getProgressPercentage(current, target) ==
  MathMin(MathRound(FMul(FDiv(current, target), 100)), PercentCap)

\* percentage >= n in JavaScript: false when percentage is NaN.
AtLeast(percentage, n) == percentage.kind = "num" /\ percentage.v >= n

getStatusColor(percentage) ==
  IF AtLeast(percentage, CompletedAt) THEN "bg-green-500"
  ELSE IF AtLeast(percentage, AlmostThereAt) THEN "bg-blue-500"
  ELSE IF AtLeast(percentage, InProgressAt) THEN "bg-yellow-500"
  ELSE "bg-slate-400"

\* Mutant: the first threshold compared is the 'Almost There' one.
getStatusBadgeShifted(percentage) ==
  IF AtLeast(percentage, AlmostThereAt) THEN "Completed"
  ELSE IF AtLeast(percentage, InProgressAt) THEN "In Progress"
  ELSE "Just Started"

getStatusBadge(percentage) ==
  IF AtLeast(percentage, CompletedAt) THEN "Completed"
  ELSE IF AtLeast(percentage, AlmostThereAt) THEN "Almost There"
  ELSE IF AtLeast(percentage, InProgressAt) THEN "In Progress"
  ELSE "Just Started"

(***************************************************************************)
(* Bounds of the model.                                                    *)
(***************************************************************************)
MaxGoals == 2          \* goals the data source returns
MaxDeletes == 2        \* delete mutations fired in one behaviour
MaxCalcProgress == 200 \* classifier inputs of CalcSpec
MaxCalcTarget == 200

\* The goals the data source may hold (ids are given by position) and the
\* values of its two progress counters.
GoalShapes == {[type |-> "daily", target |-> 2, current |-> 1],
               [type |-> "weekly", target |-> 4, current |-> 1]}
CountValues == {0, 2}
GoalTypes == {"daily", "weekly"}

\* getProgressPercentage tabulated once over the inputs the state machine
\* feeds it; any other input is computed on the spot.
PercentageTable ==
  [current \in CountValues \cup {0}, target \in {g.target : g \in GoalShapes} |->
     getProgressPercentage(current, target)]

Percentage(current, target) ==
  IF <<current, target>> \in DOMAIN PercentageTable
  THEN PercentageTable[current, target]
  ELSE getProgressPercentage(current, target)

\* Mutant: the card computed from the goal's own `current` field.
GoalCardFromCurrent(goal, progress, type) ==
  LET percentage == Percentage(goal.current, goal.target)
  IN  [type |-> type, goalId |-> goal.id, progress |-> goal.current,
       target |-> goal.target, percentage |-> percentage,
       badge |-> getStatusBadge(percentage),
       color |-> getStatusColor(percentage)]

\* What a GoalCard shows for a goal, the live progress counter and the kind.
GoalCard(goal, progress, type) ==
  LET percentage == Percentage(progress, goal.target)
  IN  [type |-> type, goalId |-> goal.id, progress |-> progress,
       target |-> goal.target, percentage |-> percentage,
       badge |-> getStatusBadge(percentage),
       color |-> getStatusColor(percentage)]

(***************************************************************************)
(* Data: a Goal is {id, type, target, current, date} (lines 11-17); date   *)
(* is never read by the component and is left out.  An optional value      *)
(* (query data that may be undefined) is <<>> or <<v>>.                    *)
(***************************************************************************)
Undefined == <<>>
Some(v) == <<v>>

GoalLists ==
  UNION {{[i \in 1..n |-> [id |-> i, type |-> f[i].type, target |-> f[i].target,
                           current |-> f[i].current]] :
            f \in [1..n -> GoalShapes]} : n \in 0..MaxGoals}

studentRegNo == "S1"
GoalsKey == <<"/api/student", studentRegNo, "goals">>
TodayKey == <<"/api/student", studentRegNo, "today-progress">>
WeekKey == <<"/api/student", studentRegNo, "week-progress">>
QueryKeys == {GoalsKey, TodayKey, WeekKey}

VARIABLES
  srvGoals,   \* the data source's goal list of the student
  srvToday,   \* the data source's completed_today
  srvWeek,    \* the data source's completed_week
  cache,      \* query cache: key -> [data, fetching, isInvalidated]
  dialog,     \* the card whose confirmation prompt is open, or "none"
  pending,    \* goal ids of the DELETE requests in flight
  toasts,     \* titles of the notifications shown so far
  sample,     \* classifier inputs (CalcSpec)
  shown       \* the card rendered for sample (CalcSpec)

vars == <<srvGoals, srvToday, srvWeek, cache, dialog, pending, toasts, sample, shown>>
calcVars == <<sample, shown>>

goals == cache[GoalsKey].data
todayProgress == cache[TodayKey].data
weekProgress == cache[WeekKey].data

\* Mutant: the last match in list order.
FindLast(list, type) ==
  LET idx == {i \in 1..Len(list) : list[i].type = type}
  IN  IF idx = {} THEN Undefined
      ELSE Some(list[CHOOSE i \in idx : \A j \in idx : j <= i])

\* goals.find(g => g.type === type): the first match in list order.
Find(list, type) ==
  LET idx == {i \in 1..Len(list) : list[i].type = type}
  IN  IF idx = {} THEN Undefined
      ELSE Some(list[CHOOSE i \in idx : \A j \in idx : i <= j])

\* data?.field || 0
CountOrZero(data, field) == IF data = Undefined THEN 0 ELSE data[1][field]

\* Mutant: the weekly card fed the today counter.
WeeklyProgressFromToday(todayData, weekData) == CountOrZero(todayData, "completed_today")

\* progress={todayProgress?.completed_today || 0}
DailyProgress(todayData, weekData) == CountOrZero(todayData, "completed_today")

\* progress={weekProgress?.completed_week || 0}
WeeklyProgress(todayData, weekData) == CountOrZero(weekData, "completed_week")

\* Mutant: only absent data counts as no goals.
IsEmptyStateUndefinedOnly(goalsData) == goalsData = Undefined

\* !goals || goals.length === 0
IsEmptyState(goalsData) == goalsData = Undefined \/ Len(goalsData[1]) = 0

\* What StudentGoals renders from the three query results: the empty
\* state, or the daily card then the weekly card, each if its goal exists.
Render(goalsData, todayData, weekData) ==
  IF IsEmptyState(goalsData)
  THEN [empty |-> TRUE, cards |-> <<>>]
  ELSE LET dailyGoal == Find(goalsData[1], "daily")
           weeklyGoal == Find(goalsData[1], "weekly")
       IN  [empty |-> FALSE,
            cards |->
              (IF dailyGoal # Undefined
               THEN <<GoalCard(dailyGoal[1], DailyProgress(todayData, weekData), "daily")>>
               ELSE <<>>)
              \o
              (IF weeklyGoal # Undefined
               THEN <<GoalCard(weeklyGoal[1], WeeklyProgress(todayData, weekData), "weekly")>>
               ELSE <<>>)]

View == Render(goals, todayProgress, weekProgress)

\* The goal a rendered card of the kind was given, if that card is rendered.
CardGoal(type) ==
  IF IsEmptyState(goals) THEN Undefined ELSE Find(goals[1], type)

(***************************************************************************)
(* The external collaborators: the data source and the query cache.        *)
(***************************************************************************)
ServerData(key) ==
  IF key = GoalsKey THEN srvGoals
  ELSE IF key = TodayKey THEN [completed_today |-> srvToday]
  ELSE [completed_week |-> srvWeek]

\* The data source deleting a goal id: the list without it.
ServerDelete(list, goalId) == SelectSeq(list, LAMBDA g : g.id # goalId)

IsPrefix(f, k) == Len(f) <= Len(k) /\ \A i \in 1..Len(f) : f[i] = k[i]

\* queryClient.invalidateQueries({queryKey}): every entry whose key starts
\* with queryKey is marked invalidated and, being observed, refetched.
InvalidateQueries(c, queryKey) ==
  [k \in DOMAIN c |->
     IF IsPrefix(queryKey, k)
     THEN [c[k] EXCEPT !.isInvalidated = TRUE, !.fetching = TRUE]
     ELSE c[k]]

RemoveAt(seq, i) == SubSeq(seq, 1, i - 1) \o SubSeq(seq, i + 1, Len(seq))

ToastDeleted == "Goal Deleted"
ToastError == "Error"

(***************************************************************************)
(* Init: the component has mounted; its three reads are in flight.         *)
(***************************************************************************)
Mounted ==
  /\ cache = [k \in QueryKeys |->
                [data |-> Undefined, fetching |-> TRUE, isInvalidated |-> FALSE]]
  /\ dialog = "none"
  /\ pending = <<>>
  /\ toasts = <<>>

Init ==
  /\ srvGoals \in GoalLists
  /\ srvToday \in CountValues
  /\ srvWeek \in CountValues
  /\ Mounted
  /\ sample = [progress |-> 0, target |-> 0]
  /\ shown = Undefined

(***************************************************************************)
(* Reads (lines 27-37).  GoalCard is declared inside StudentGoals (line    *)
(* 93), so every re-render of StudentGoals remounts the cards and their    *)
(* dialogs start closed again.  A changed query result re-renders; whether *)
(* a completion that leaves the data as it was re-renders depends on the   *)
(* query library's change tracking, so both outcomes are allowed.          *)
(***************************************************************************)
FetchSuccess(k) ==
  /\ cache[k].fetching
  /\ cache' = [cache EXCEPT ![k] = [data |-> Some(ServerData(k)), fetching |-> FALSE,
                                    isInvalidated |-> FALSE]]
  /\ IF cache[k].data # Some(ServerData(k))
     THEN dialog' = "none"
     ELSE dialog' \in {dialog, "none"}
  /\ UNCHANGED <<srvGoals, srvToday, srvWeek, pending, toasts, calcVars>>

FetchError(k) ==
  /\ cache[k].fetching
  /\ cache' = [cache EXCEPT ![k].fetching = FALSE]
  /\ dialog' \in {dialog, "none"}
  /\ UNCHANGED <<srvGoals, srvToday, srvWeek, pending, toasts, calcVars>>

(***************************************************************************)
(* The confirmation dialog of a card (lines 107-134).                      *)
(***************************************************************************)
\* deleteGoalMutation.mutate(goalId): mutationFn issues the DELETE request.
Mutate(goalId) == pending' = Append(pending, goalId)

\* Mutant: the trash button itself fires the mutation.
OpenDialogDeletes(type) ==
  /\ dialog = "none"
  /\ CardGoal(type) # Undefined
  /\ Len(pending) + Len(toasts) < MaxDeletes
  /\ Mutate(CardGoal(type)[1].id)
  /\ dialog' = type
  /\ UNCHANGED <<srvGoals, srvToday, srvWeek, cache, toasts, calcVars>>

\* AlertDialogTrigger: the dialog is modal, so one prompt is open at a time.
OpenDialog(type) ==
  /\ dialog = "none"
  /\ CardGoal(type) # Undefined
  /\ dialog' = type
  /\ UNCHANGED <<srvGoals, srvToday, srvWeek, cache, pending, toasts, calcVars>>

\* AlertDialogCancel
Cancel ==
  /\ dialog # "none"
  /\ dialog' = "none"
  /\ UNCHANGED <<srvGoals, srvToday, srvWeek, cache, pending, toasts, calcVars>>

\* AlertDialogAction onClick={() => deleteGoalMutation.mutate(goal.id)}
Confirm ==
  /\ dialog # "none"
  /\ Len(pending) + Len(toasts) < MaxDeletes   \* bound on the mutations fired
  /\ Mutate(CardGoal(dialog)[1].id)
  /\ dialog' = "none"
  /\ UNCHANGED <<srvGoals, srvToday, srvWeek, cache, toasts, calcVars>>

(***************************************************************************)
(* The delete mutation's callbacks (lines 39-58).                          *)
(***************************************************************************)
\* Mutant: the invalidation names the student's whole key prefix.
OnSuccessInvalidatesStudent ==
  /\ cache' = InvalidateQueries(cache, <<"/api/student", studentRegNo>>)
  /\ toasts' = Append(toasts, ToastDeleted)

\* Mutant: the goals query is invalidated on failure too (as onSettled would).
OnErrorInvalidates ==
  /\ cache' = InvalidateQueries(cache, <<"/api/student", studentRegNo, "goals">>)
  /\ toasts' = Append(toasts, ToastError)

OnSuccess ==
  /\ cache' = InvalidateQueries(cache, <<"/api/student", studentRegNo, "goals">>)
  /\ toasts' = Append(toasts, ToastDeleted)

OnError ==
  /\ toasts' = Append(toasts, ToastError)
  /\ UNCHANGED cache

\* mutationFn resolves: the request succeeded and its body parsed.
DeleteSuccess(i) ==
  /\ i \in 1..Len(pending)
  /\ srvGoals' = ServerDelete(srvGoals, pending[i])
  /\ pending' = RemoveAt(pending, i)
  /\ OnSuccess
  /\ dialog' = "none"
  /\ UNCHANGED <<srvToday, srvWeek, calcVars>>

\* mutationFn rejects: apiRequest threw, or res.json() threw after the data
\* source had served the request.
DeleteError(i) ==
  /\ i \in 1..Len(pending)
  /\ srvGoals' \in {srvGoals, ServerDelete(srvGoals, pending[i])}
  /\ pending' = RemoveAt(pending, i)
  /\ OnError
  /\ dialog' = "none"
  /\ UNCHANGED <<srvToday, srvWeek, calcVars>>

Next ==
  \/ \E k \in QueryKeys : FetchSuccess(k)
  \/ \E k \in QueryKeys : FetchError(k)
  \/ \E type \in GoalTypes : OpenDialog(type)
  \/ Cancel
  \/ Confirm
  \/ \E i \in 1..MaxDeletes : DeleteSuccess(i)
  \/ \E i \in 1..MaxDeletes : DeleteError(i)

Spec == Init /\ [][Next]_vars

(***************************************************************************)
(* CalcSpec: the classifier applied to every input within the bounds, as   *)
(* the card of a daily goal with that target and that progress counter.    *)
(***************************************************************************)
CalcInit ==
  /\ srvGoals = <<>>
  /\ srvToday = 0
  /\ srvWeek = 0
  /\ Mounted
  /\ sample \in [progress : 0..MaxCalcProgress, target : 0..MaxCalcTarget]
  /\ shown = Undefined

RenderCard ==
  /\ shown = Undefined
  /\ shown' = Some(GoalCard([id |-> 1, type |-> "daily", target |-> sample.target,
                             current |-> 0],
                            sample.progress, "daily"))
  /\ UNCHANGED <<srvGoals, srvToday, srvWeek, cache, dialog, pending, toasts, sample>>

CalcNext == RenderCard

CalcSpec == CalcInit /\ [][CalcNext]_vars

(***************************************************************************)
(* Properties.                                                             *)
(***************************************************************************)
Min(a, b) == IF a < b THEN a ELSE b

\* round(100 * progress / target), halves rounded up, in exact arithmetic.
ExactPercent(progress, target) == (200 * progress + target) \div (2 * target)

TierOf(percent) ==
  IF percent >= 100 THEN "Completed"
  ELSE IF percent >= 75 THEN "Almost There"
  ELSE IF percent >= 50 THEN "In Progress"
  ELSE "Just Started"

\* C1: for every progress >= 0 and target > 0 the card's percentage is
\* min(round(100 * progress / target), 100), halves rounded up, and the badge
\* is the tier of that percentage.
C1_PercentageAndBadge ==
  (shown # Undefined /\ sample.target > 0) =>
    LET expected == Min(ExactPercent(sample.progress, sample.target), 100)
    IN  /\ shown[1].percentage = Num(expected)
        /\ shown[1].badge = TierOf(expected)

\* C2: every displayed card shows an integer percentage between 0 and 100,
\* also for a goal whose target is 0.
C2_BoundedPercentage ==
  shown # Undefined =>
    /\ shown[1].percentage.kind = "num"
    /\ shown[1].percentage.v \in 0..100

\* C10 as stated: a card is 'Completed' only if progress >= target.
C10_CompletedOnlyIfReached ==
  (shown # Undefined /\ sample.target > 0 /\ shown[1].badge = "Completed") =>
    sample.progress >= sample.target

\* C10 amended: a card is 'Completed' (percentage 100) only if the ratio
\* rounds to 100, i.e. 200 * progress >= 199 * target; for a target below
\* 200 that means progress >= target.
C10_CompletedOnlyIfRoundsTo100 ==
  (shown # Undefined /\ sample.target > 0) =>
    /\ (shown[1].badge = "Completed") = (shown[1].percentage = Num(100))
    /\ shown[1].badge = "Completed" =>
         /\ 200 * sample.progress >= 199 * sample.target
         /\ sample.target < 200 => sample.progress >= sample.target

C10_Witness ==
  /\ shown # Undefined
  /\ sample.target > 0
  /\ sample.progress < sample.target
  /\ shown[1].badge = "Completed"

CardsOf(view, type) == SelectSeq(view.cards, LAMBDA c : c.type = type)

\* What is rendered after the step.
NextView == Render(cache'[GoalsKey].data, cache'[TodayKey].data, cache'[WeekKey].data)

TodayResults == {Undefined} \cup {Some([completed_today |-> n]) : n \in CountValues}
WeekResults == {Undefined} \cup {Some([completed_week |-> n]) : n \in CountValues}

\* C3: confirming on the card of goal g issues exactly one DELETE carrying
\* g's id; when the mutation resolves the goals query is invalidated and
\* refetched and the success notification is shown; when it rejects the
\* error notification is shown, no cache entry (so no card) changes and no
\* request is issued again.
C3_DeleteFlow ==
  [][/\ Confirm =>
          \E i \in 1..Len(goals[1]) :
            /\ goals[1][i].type = dialog
            /\ \A j \in 1..(i - 1) : goals[1][j].type # dialog
            /\ pending' = pending \o <<goals[1][i].id>>
     /\ \A i \in 1..Len(pending) :
          DeleteSuccess(i) =>
            /\ cache'[GoalsKey].isInvalidated
            /\ cache'[GoalsKey].fetching
            /\ toasts' = toasts \o <<"Goal Deleted">>
            /\ Len(pending') = Len(pending) - 1
     /\ \A i \in 1..Len(pending) :
          DeleteError(i) =>
            /\ toasts' = toasts \o <<"Error">>
            /\ cache' = cache
            /\ NextView = View
            /\ Len(pending') = Len(pending) - 1]_vars

C3_Witness ==
  /\ \E i \in 1..Len(toasts) : toasts[i] = "Goal Deleted"
  /\ \E i \in 1..Len(toasts) : toasts[i] = "Error"
  /\ cache[GoalsKey].isInvalidated
  /\ View.cards # <<>>

\* C4: a DELETE request is issued only by a step taken while a card's
\* prompt is open, for that card's goal, and it closes the prompt; opening
\* a prompt issues none; Cancel closes the prompt and issues no request,
\* shows no notification and leaves the cache and the data source alone.
C4_ConfirmGatesDelete ==
  [][/\ Len(pending') > Len(pending) =>
          /\ dialog # "none"
          /\ dialog' = "none"
          /\ \E g \in {goals[1][i] : i \in 1..Len(goals[1])} :
               g.type = dialog /\ pending' = pending \o <<g.id>>
     /\ (dialog = "none" /\ dialog' # "none") =>
          UNCHANGED <<pending, toasts, cache, srvGoals>>
     /\ Cancel =>
          /\ dialog' = "none"
          /\ UNCHANGED <<pending, toasts, cache, srvGoals>>]_vars

C4_Witness ==
  /\ dialog # "none"
  /\ pending = <<>>
  /\ toasts = <<>>

\* C5: for a non-empty fetched list at most one card per kind is rendered,
\* a kind has a card exactly when the list holds a goal of that kind, and
\* the card shows the first goal of its kind in list order.
C5_FirstGoalPerKind ==
  (goals # Undefined /\ Len(goals[1]) > 0) =>
    \A type \in GoalTypes :
      LET list == goals[1]
          cards == CardsOf(View, type)
          ofKind == {i \in 1..Len(list) : list[i].type = type}
      IN  /\ Len(cards) <= 1
          /\ (Len(cards) = 1) = (ofKind # {})
          /\ Len(cards) = 1 =>
               \E i \in ofKind :
                 /\ \A j \in ofKind : i <= j
                 /\ cards[1].goalId = list[i].id
                 /\ cards[1].target = list[i].target

C5_Witness ==
  /\ goals # Undefined
  /\ Len(goals[1]) = 2
  /\ \A i \in 1..Len(goals[1]) : goals[1][i].type = "daily"
  /\ Len(View.cards) = 1
  /\ View.cards[1].goalId = goals[1][1].id

\* C6: while the goals data is absent or an empty list the empty state is
\* rendered with no card, whatever the two progress reads hold, no prompt
\* is open and neither opening a prompt nor confirming is possible.
C6_EmptyState ==
  (goals = Undefined \/ goals = Some(<<>>)) =>
    /\ \A td \in TodayResults, wd \in WeekResults :
         Render(goals, td, wd) = [empty |-> TRUE, cards |-> <<>>]
    /\ View.empty
    /\ dialog = "none"
    /\ ~ ENABLED (\E type \in GoalTypes : OpenDialog(type))
    /\ ~ ENABLED Confirm

C6_Witness ==
  /\ goals = Some(<<>>)
  /\ todayProgress # Undefined
  /\ todayProgress[1].completed_today > 0
  /\ View.empty

\* C7: the rendered cards do not depend on any goal's `current` field.
C7_CurrentIgnored ==
  goals # Undefined =>
    \A i \in 1..Len(goals[1]), c \in {0, 2} :
      Render(Some([goals[1] EXCEPT ![i].current = c]), todayProgress, weekProgress)
        = View

C7_Witness ==
  /\ View.cards # <<>>
  /\ View.cards[1].type = "daily"
  /\ \E i \in 1..Len(goals[1]) :
       /\ goals[1][i].id = View.cards[1].goalId
       /\ goals[1][i].current # View.cards[1].progress
       /\ View.cards[1].progress > 0

\* C8: a counter whose read has no result is displayed as 0; a step that
\* changes one query's cache entry by completing its read leaves the other
\* two entries alone, and a change of the today entry leaves the weekly card
\* as it was (and the week entry the daily card); until a delete is fired the
\* cards are those of the data source's data for the reads that have
\* delivered, whatever the order of completion.
C8_DefaultZero ==
  \A i \in 1..Len(View.cards) :
    /\ (View.cards[i].type = "daily" /\ todayProgress = Undefined) =>
         View.cards[i].progress = 0
    /\ (View.cards[i].type = "weekly" /\ weekProgress = Undefined) =>
         View.cards[i].progress = 0

C8_SameForEveryOrder ==
  (pending = <<>> /\ toasts = <<>>) =>
    LET Result(k) == IF cache[k].data = Undefined THEN Undefined
                     ELSE Some(ServerData(k))
    IN  View = Render(Result(GoalsKey), Result(TodayKey), Result(WeekKey))

C8_IndependentReads ==
  /\ []C8_DefaultZero
  /\ []C8_SameForEveryOrder
  /\ [][/\ cache'[TodayKey] # cache[TodayKey] =>
             /\ CardsOf(NextView, "weekly") = CardsOf(View, "weekly")
             /\ cache'[GoalsKey] = cache[GoalsKey]
             /\ cache'[WeekKey] = cache[WeekKey]
        /\ cache'[WeekKey] # cache[WeekKey] =>
             /\ CardsOf(NextView, "daily") = CardsOf(View, "daily")
             /\ cache'[GoalsKey] = cache[GoalsKey]
             /\ cache'[TodayKey] = cache[TodayKey]
        /\ (cache'[GoalsKey] # cache[GoalsKey] /\ UNCHANGED <<pending, toasts>>) =>
             /\ cache'[TodayKey] = cache[TodayKey]
             /\ cache'[WeekKey] = cache[WeekKey]]_vars

C8_Witness ==
  /\ todayProgress = Undefined
  /\ weekProgress # Undefined
  /\ srvToday > 0
  /\ Len(View.cards) = 2
  /\ View.cards[1].progress = 0
  /\ View.cards[2].progress > 0

\* C9: a successful delete invalidates (and refetches) the goals entry, the
\* entry the goals read uses, and leaves the today-progress and
\* week-progress entries as they were.
C9_InvalidatesGoalsOnly ==
  [][\A i \in 1..Len(pending) :
       DeleteSuccess(i) =>
         /\ cache'[<<"/api/student", studentRegNo, "goals">>].isInvalidated
         /\ cache'[<<"/api/student", studentRegNo, "goals">>].fetching
         /\ cache'[TodayKey] = cache[TodayKey]
         /\ cache'[WeekKey] = cache[WeekKey]]_vars

C9_Witness ==
  /\ toasts # <<>>
  /\ toasts[Len(toasts)] = "Goal Deleted"
  /\ cache[GoalsKey].isInvalidated
  /\ cache[GoalsKey].fetching
  /\ \A k \in {TodayKey, WeekKey} :
       cache[k].data # Undefined /\ ~cache[k].fetching /\ ~cache[k].isInvalidated

====
